---- MODULE Spec2Model ----
(***************************************************************************)
(* FinanzBOT (src/finanzbot.py): one scheduled batch run of main() after   *)
(* the other.  A run fetches the feeds, filters by recency and relevance,  *)
(* removes the ids found in last_sent.json, sends the new items to the     *)
(* Gemini models, filters the returned ideas by signal and confidence,     *)
(* writes last_sent.json and renders the dashboard.                        *)
(*                                                                         *)
(* Numbers that are floats in the program (IdeaItem.vertrauen) are kept in *)
(* hundredths: 80 stands for 0.8 and 8000 for 80.                          *)
(* Strings that the program inspects character by character (the signal)   *)
(* are sequences of one-character strings.                                 *)
(***************************************************************************)
EXTENDS Integers, Sequences, FiniteSets, TLC

\* ---------------------------------------------------------------- bounds
MaxUrls  == 2      \* distinct item urls the feeds can carry
MaxFeed  == 2      \* entries delivered by all feeds together in one run
MaxIdeas == 1      \* ideas in one model response

\* ------------------------------------------------------ program constants
MAX_NEWS_AGE_HOURS == 12
MIN_CONF_PORTFOLIO == 60
MIN_CONF_NEW_GEM   == 95
MIN_RELEVANCE      == 1
PromptCap          == 20

Hundredths(n) == n * 100

models == << "gemini-2.5-pro", "gemini-2.5-flash", "gemini-1.5-flash" >>

KEYWORDS == { "dax", "aktie", "zinsen", "inflation", "ezb", "bitcoin" }

\* ------------------------------------------------------------ input sets
Urls == 1 .. MaxUrls

\* what the feeds say about an entry: the tokens found in title + summary
\* and the hours between publication and the run.  One kind passes both
\* filters, one is an hour too old, one scores 0 and one scores below 0.
EntryKinds ==
    { [ text |-> {"dax"},              age |-> MAX_NEWS_AGE_HOURS ],
      [ text |-> {"dax"},              age |-> MAX_NEWS_AGE_HOURS + 1 ],
      [ text |-> {},                   age |-> MAX_NEWS_AGE_HOURS ],
      [ text |-> {"dax", "dgap-news"}, age |-> MAX_NEWS_AGE_HOURS ] }

NewsItems == { [ url |-> u, text |-> k.text, age |-> k.age ] : u \in Urls, k \in EntryKinds }

Signals == { << "K","a","u","f","e","n" >>,
             << "V","e","r","k","a","u","f","e","n" >>,
             << "H","a","l","t","e","n" >> }

\* vertrauen in hundredths: 0.8, 59, 60, 150
Confidences == { 80, 5900, 6000, 15000 }

IdeaItem == [ signal : Signals, vertrauen : Confidences, betrifft_portfolio : BOOLEAN ]

Outcomes == { "ok", "rate_limit", "error" }

SeqsUpTo(S, n) == UNION { [ 1 .. k -> S ] : k \in 0 .. n }

Range(s) == { s[i] : i \in 1 .. Len(s) }

\* ------------------------------------------------------------- strings
Upper(c) ==
    CASE c = "a" -> "A" [] c = "e" -> "E" [] c = "f" -> "F" [] c = "k" -> "K"
      [] c = "l" -> "L" [] c = "n" -> "N" [] c = "r" -> "R" [] c = "t" -> "T"
      [] c = "u" -> "U" [] OTHER -> c

upper(s) == [ i \in 1 .. Len(s) |-> Upper(s[i]) ]

Contains(sub, s) ==
    \E i \in 1 .. (Len(s) - Len(sub) + 1) : SubSeq(s, i, i + Len(sub) - 1) = sub

KAUF    == << "K","A","U","F" >>
VERKAUF == << "V","E","R","K","A","U","F" >>

\* ------------------------------------------------------------- filters
is_recent(item) == item.age <= MAX_NEWS_AGE_HOURS

relevance_score(item) ==
    Cardinality(item.text \cap KEYWORDS)
      - (IF "dgap-news" \in item.text \/ "original-research" \in item.text THEN 2 ELSE 0)

\* main, lines 469-474: entries of all sources in order, first entry of a url wins
RECURSIVE Dedup(_, _)
Dedup(s, seen_links) ==
    IF s = << >> THEN << >>
    ELSE IF Head(s).url \in seen_links
         THEN Dedup(Tail(s), seen_links)
         ELSE << Head(s) >> \o Dedup(Tail(s), seen_links \cup { Head(s).url })

\* main, line 475: stable sort, newest (smallest age) first
RECURSIVE Insert(_, _)
Insert(n, s) ==
    IF s = << >> THEN << n >>
    ELSE IF Head(s).age <= n.age
         THEN << Head(s) >> \o Insert(n, Tail(s))
         ELSE << n >> \o s

RECURSIVE SortNewestFirst(_)
SortNewestFirst(s) ==
    IF s = << >> THEN << >>
    ELSE Insert(s[Len(s)], SortNewestFirst(SubSeq(s, 1, Len(s) - 1)))

RECURSIVE SelectSeqBy(_, _)
SelectSeqBy(s, ids) ==
    IF s = << >> THEN << >>
    ELSE IF Head(s).url \in ids
         THEN << Head(s) >> \o SelectSeqBy(Tail(s), ids)
         ELSE SelectSeqBy(Tail(s), ids)

RECURSIVE FilterNews(_)
FilterNews(s) ==
    IF s = << >> THEN << >>
    ELSE IF is_recent(Head(s)) /\ relevance_score(Head(s)) >= MIN_RELEVANCE
         THEN << Head(s) >> \o FilterNews(Tail(s))
         ELSE FilterNews(Tail(s))

Take(s, n) == SubSeq(s, 1, IF Len(s) < n THEN Len(s) ELSE n)

UrlsOf(s) == { s[i].url : i \in 1 .. Len(s) }

\* ------------------------------------------------------- state file
\* load_last_ids: the ids in the file, or the empty set when the file is
\* missing or reading it fails
load_last_ids(file, readFails) == IF readFails THEN {} ELSE file

NewIds_all(current, last) == current

NewIds(current, last) == current \ last

ShouldAnalyze_always(final) == TRUE

ShouldAnalyze(final) == final # << >>

\* ------------------------------------------------------- acceptance
is_action(idee) ==
    LET sig == upper(idee.signal) IN Contains(KAUF, sig) \/ Contains(VERKAUF, sig)

Accepts_strict(idee) ==
    /\ is_action(idee)
    /\ \/ idee.betrifft_portfolio /\ idee.vertrauen > Hundredths(MIN_CONF_PORTFOLIO)
       \/ (~idee.betrifft_portfolio) /\ idee.vertrauen >= Hundredths(MIN_CONF_NEW_GEM)

Accepts(idee) ==
    /\ is_action(idee)
    /\ \/ idee.betrifft_portfolio /\ idee.vertrauen >= Hundredths(MIN_CONF_PORTFOLIO)
       \/ (~idee.betrifft_portfolio) /\ idee.vertrauen >= Hundredths(MIN_CONF_NEW_GEM)

RECURSIVE SelectAccepted(_)
SelectAccepted(ideen) ==
    IF ideen = << >> THEN << >>
    ELSE IF Accepts(Head(ideen))
         THEN << Head(ideen) >> \o SelectAccepted(Tail(ideen))
         ELSE SelectAccepted(Tail(ideen))

\* generate_dashboard, line 373: the confidence shown on a card, in hundredths
DisplayScore(i) == IF i.vertrauen <= Hundredths(1) THEN i.vertrauen * 100 ELSE i.vertrauen

\* generate_dashboard, lines 374-376: a card is a sell card when VERKAUF occurs
IsSellCard(i) == Contains(VERKAUF, upper(i.signal))

\* analyze_with_gemini, line 228: which failures the loop absorbs
Catches_only429(o) == o = "rate_limit"

Catches(o) == o \in { "rate_limit", "error" }

\* analyze_with_gemini, line 229: the failures after which the loop sleeps
SleepsOn_never(o) == FALSE

SleepsOn(o) == o = "rate_limit"

\* ------------------------------------------------------------ state
VARIABLES
    pc,                 \* position of the run: idle, analyze, sleep (in time.sleep), accept, save, deliver, done, crashed
    state_file,         \* ids stored in last_sent.json ({} when the file does not exist)
    filtered_news,      \* main: filtered_news
    last_ids,           \* main: last_ids
    current_ids,        \* main: current_ids
    new_ids,            \* main: new_ids
    final_news_for_ai,  \* main: final_news_for_ai
    news_items,         \* analyze_with_gemini: the argument it was called with
    calls,              \* analyze_with_gemini: models invoked so far, in order
    last_error,         \* analyze_with_gemini: how the model asked last failed ("none" outside the loop)
    ai_result,          \* main: ai_result.ideen
    relevant_items,     \* main: relevant_items
    dashboard,          \* generate_dashboard: the confidences rendered on the cards
    load_failed,        \* history: load_last_ids of this run hit a read failure
    persisted_at_start, \* history: state_file when this run started
    analyzed,           \* history: analyze_with_gemini was called in this run
    model_ok,           \* history: a model returned a response that validated in this run
    exhausted,          \* history: every model failed in this run
    committed,          \* history: save_last_ids has written in this run
    delivery_attempted  \* history: generate_dashboard was called in this run

vars == << pc, state_file, filtered_news, last_ids, current_ids, new_ids,
           final_news_for_ai, news_items, calls, last_error, ai_result,
           relevant_items, dashboard, load_failed, persisted_at_start, analyzed, model_ok,
           exhausted, committed, delivery_attempted >>

runLocals == << filtered_news, last_ids, current_ids, new_ids, final_news_for_ai,
                news_items, calls, last_error, ai_result, relevant_items,
                dashboard, load_failed, persisted_at_start, analyzed, model_ok,
                exhausted, committed, delivery_attempted >>

Init ==
    /\ pc = "idle"
    /\ state_file = {}
    /\ filtered_news = << >>
    /\ last_ids = {}
    /\ current_ids = {}
    /\ new_ids = {}
    /\ final_news_for_ai = << >>
    /\ news_items = << >>
    /\ calls = << >>
    /\ last_error = "none"
    /\ ai_result = << >>
    /\ relevant_items = << >>
    /\ dashboard = << >>
    /\ load_failed = FALSE
    /\ persisted_at_start = {}
    /\ analyzed = FALSE
    /\ model_ok = FALSE
    /\ exhausted = FALSE
    /\ committed = FALSE
    /\ delivery_attempted = FALSE

\* main, lines 464-487: fetch, merge, sort, filter, load the state, split off
\* the new items and decide whether to call analyze_with_gemini
StartRun(feed, readFails) ==
    /\ pc = "idle"
    /\ readFails => state_file # {}
    /\ \E filtered \in { FilterNews(SortNewestFirst(Dedup(feed, {}))) } :
       \E last \in { load_last_ids(state_file, readFails) } :
       \E new \in { NewIds(UrlsOf(filtered), last) } :
       \E final \in { SelectSeqBy(filtered, new) } :
           /\ filtered_news' = filtered
           /\ last_ids' = last
           /\ current_ids' = UrlsOf(filtered)
           /\ new_ids' = new
           /\ final_news_for_ai' = final
           /\ IF ShouldAnalyze(final)
              THEN /\ news_items' = Take(final, PromptCap)
                   /\ analyzed' = TRUE
                   /\ pc' = "analyze"
              ELSE /\ news_items' = << >>
                   /\ analyzed' = FALSE
                   /\ pc' = "deliver"
    /\ load_failed' = readFails
    /\ persisted_at_start' = state_file
    /\ UNCHANGED << state_file, calls, last_error, ai_result, relevant_items,
                    dashboard, model_ok, exhausted, committed, delivery_attempted >>

\* analyze_with_gemini, line 230 once the loop has ended, else the next iteration
AfterFailure(invoked, o) ==
    IF Len(invoked) = Len(models)
    THEN /\ ai_result' = << >>
         /\ exhausted' = TRUE
         /\ calls' = << >>
         /\ last_error' = "none"
         /\ pc' = "accept"
    ELSE /\ calls' = invoked
         /\ last_error' = o
         /\ pc' = "analyze"
         /\ UNCHANGED << ai_result, exhausted >>

\* analyze_with_gemini, lines 222-230: one iteration of the loop over models
\* (the model is asked and its response parsed and validated), and the
\* return that ends the call
TryModel(o, ideen) ==
    /\ pc = "analyze"
    /\ Len(calls) < Len(models)
    /\ LET invoked == Append(calls, models[Len(calls) + 1])
       IN  IF o = "ok"
           THEN /\ ai_result' = ideen
                /\ model_ok' = TRUE
                /\ calls' = << >>
                /\ last_error' = "none"
                /\ pc' = "accept"
                /\ UNCHANGED exhausted
           ELSE IF ~Catches(o)
           THEN /\ calls' = invoked
                /\ last_error' = o
                /\ pc' = "crashed"
                /\ UNCHANGED << ai_result, model_ok, exhausted >>
           ELSE IF SleepsOn(o)
           THEN /\ calls' = invoked
                /\ last_error' = o
                /\ pc' = "sleep"
                /\ UNCHANGED << ai_result, model_ok, exhausted >>
           ELSE /\ AfterFailure(invoked, o)
                /\ UNCHANGED model_ok
    /\ UNCHANGED << state_file, filtered_news, last_ids, current_ids, new_ids,
                    final_news_for_ai, news_items, relevant_items, dashboard,
                    load_failed, persisted_at_start, analyzed, committed,
                    delivery_attempted >>

\* analyze_with_gemini, line 229: time.sleep(5) after a rate-limit error
Sleep ==
    /\ pc = "sleep"
    /\ AfterFailure(calls, last_error)
    /\ UNCHANGED << state_file, filtered_news, last_ids, current_ids, new_ids,
                    final_news_for_ai, news_items, relevant_items, dashboard,
                    load_failed, persisted_at_start, analyzed, model_ok, committed,
                    delivery_attempted >>

\* main, lines 488-497: the acceptance loop over ai_result.ideen; ai_result is
\* not read again afterwards
Accept ==
    /\ pc = "accept"
    /\ relevant_items' = SelectAccepted(ai_result)
    /\ pc' = IF ai_result # << >> THEN "save" ELSE "deliver"
    /\ ai_result' = << >>
    /\ UNCHANGED << state_file, filtered_news, last_ids, current_ids, new_ids,
                    final_news_for_ai, news_items, calls, last_error, dashboard,
                    load_failed, persisted_at_start, analyzed, model_ok, exhausted,
                    committed, delivery_attempted >>

\* main, line 498 and save_last_ids, lines 81-82
Save(writeFails) ==
    /\ pc = "save"
    /\ IF writeFails
       THEN /\ pc' = "crashed"
            /\ UNCHANGED << state_file, committed >>
       ELSE /\ state_file' = last_ids \cup current_ids
            /\ committed' = TRUE
            /\ pc' = "deliver"
    /\ UNCHANGED << filtered_news, last_ids, current_ids, new_ids, final_news_for_ai,
                    news_items, calls, last_error, ai_result, relevant_items,
                    dashboard, load_failed, persisted_at_start, analyzed, model_ok,
                    exhausted, delivery_attempted >>

\* main, lines 500-501: get_market_data, then generate_dashboard
Deliver ==
    /\ pc = "deliver"
    /\ dashboard' = [ k \in 1 .. Len(relevant_items) |-> DisplayScore(relevant_items[k]) ]
    /\ delivery_attempted' = TRUE
    /\ pc' = "done"
    /\ UNCHANGED << state_file, filtered_news, last_ids, current_ids, new_ids,
                    final_news_for_ai, news_items, calls, last_error, ai_result,
                    relevant_items, load_failed, persisted_at_start, analyzed,
                    model_ok, exhausted, committed >>

\* the process ends (main returns, or the exception leaves it); the next
\* scheduled run starts from a fresh process
Exit ==
    /\ pc \in { "done", "crashed" }
    /\ pc' = "idle"
    /\ filtered_news' = << >>
    /\ last_ids' = {}
    /\ current_ids' = {}
    /\ new_ids' = {}
    /\ final_news_for_ai' = << >>
    /\ news_items' = << >>
    /\ calls' = << >>
    /\ last_error' = "none"
    /\ ai_result' = << >>
    /\ relevant_items' = << >>
    /\ dashboard' = << >>
    /\ load_failed' = FALSE
    /\ persisted_at_start' = {}
    /\ analyzed' = FALSE
    /\ model_ok' = FALSE
    /\ exhausted' = FALSE
    /\ committed' = FALSE
    /\ delivery_attempted' = FALSE
    /\ UNCHANGED state_file

Next ==
    \/ \E feed \in SeqsUpTo(NewsItems, MaxFeed), readFails \in BOOLEAN : StartRun(feed, readFails)
    \/ \E o \in Outcomes :
          \E ideen \in (IF o = "ok" THEN SeqsUpTo(IdeaItem, MaxIdeas) ELSE { << >> }) :
              TryModel(o, ideen)
    \/ Sleep
    \/ Accept
    \/ \E writeFails \in BOOLEAN : Save(writeFails)
    \/ Deliver
    \/ Exit

Spec == Init /\ [][Next]_vars

\* a busy day: the feeds deliver n distinct entries that all pass the filters,
\* up to one more than analyze_with_gemini is given
MaxBulk == PromptCap + 1

BulkFeed(n) ==
    [ i \in 1 .. n |-> [ url |-> i, text |-> {"dax"}, age |-> MAX_NEWS_AGE_HOURS ] ]

CapNext ==
    \/ \E n \in 0 .. MaxBulk, readFails \in BOOLEAN : StartRun(BulkFeed(n), readFails)
    \/ \E o \in Outcomes :
          \E ideen \in (IF o = "ok" THEN SeqsUpTo(IdeaItem, MaxIdeas) ELSE { << >> }) :
              TryModel(o, ideen)
    \/ Sleep
    \/ Accept
    \/ \E writeFails \in BOOLEAN : Save(writeFails)
    \/ Deliver
    \/ Exit

CapSpec == Init /\ [][CapNext]_vars

TypeOK ==
    /\ pc \in { "idle", "analyze", "sleep", "accept", "save", "deliver", "done", "crashed" }
    /\ state_file \subseteq Urls \cup (1 .. MaxBulk)
    /\ current_ids \subseteq Urls \cup (1 .. MaxBulk)
    /\ new_ids \subseteq current_ids
    /\ Len(calls) <= Len(models)

\* ------------------------------------------------------------ properties
\* a sell-like signal names VERKAUF, a buy-like one names KAUF and is not sell-like
IsSellLike(i) == IsSellCard(i)

IsBuyLike(i) == Contains(KAUF, upper(i.signal)) /\ ~IsSellCard(i)

\* C1: ids of a run are written to the state file only after the delivery of
\* that run has been attempted: no state has the run's ids persisted while
\* generate_dashboard has not been called yet.
C1_PersistOnlyAfterDelivery == committed => delivery_attempted

\* C2: the persisted seen set never loses an id: every step leaves the state
\* file a superset of what it was, also in a run whose load hit a read failure.
C2_PersistedMonotone == [][state_file \subseteq state_file']_vars

\* C3 (as claimed): an id persisted at the start of a run is never in the
\* run's new set and never among the items passed to analyze_with_gemini.
C3_SeenNeverResubmitted ==
    pc # "idle" => persisted_at_start \cap (new_ids \cup UrlsOf(news_items)) = {}

\* C3 (amended): in a run whose load_last_ids read the state file
\* successfully, an id persisted at the start of the run is never in the new
\* set and never among the items passed to analyze_with_gemini.
C3_SeenNotResubmittedWhenLoaded ==
    (pc # "idle" /\ ~load_failed) =>
        persisted_at_start \cap (new_ids \cup UrlsOf(news_items)) = {}

C3_Witness ==
    /\ pc = "analyze"
    /\ ~load_failed
    /\ persisted_at_start \cap current_ids # {}
    /\ new_ids # {}
    /\ UrlsOf(news_items) = new_ids

\* C4: a completed run leaves the persisted seen set equal to what it was
\* before the run plus the ids the run observed passing the recency and
\* relevance filters, whatever the extraction returned.  From the empty
\* initial state this makes the persisted set the set of all ids observed by
\* completed runs.
C4_PersistedEqualsObserved ==
    pc = "done" => state_file = persisted_at_start \cup current_ids

\* the notification gate of the design: a high score, a corroborated cluster
\* or breadth
RECURSIVE SumScores(_, _)
SumScores(s, idx) ==
    IF idx = {} THEN 0
    ELSE LET i == CHOOSE j \in idx : TRUE
         IN  relevance_score(s[i]) + SumScores(s, idx \ { i })

ClusterOf(s, i) == { j \in 1 .. Len(s) : s[j].text = s[i].text }

NotificationGate(s) ==
    \/ \E i \in 1 .. Len(s) : relevance_score(s[i]) >= 6
    \/ \E i \in 1 .. Len(s) :
          /\ Cardinality(ClusterOf(s, i)) >= 3
          /\ SumScores(s, ClusterOf(s, i)) >= 3 * Cardinality(ClusterOf(s, i))
    \/ Len(s) >= 6

C6_NotHeldOnlyBuy ==
    \A k \in 1 .. Len(relevant_items) :
        ~relevant_items[k].betrifft_portfolio =>
            /\ IsBuyLike(relevant_items[k])
            /\ relevant_items[k].vertrauen >= Hundredths(MIN_CONF_NEW_GEM)

\* C7: the acceptance loop puts an idea that affects a held position among
\* the accepted ideas exactly when its signal is buy-like or sell-like and
\* its confidence (vertrauen as returned) is at least MIN_CONF_PORTFOLIO, the
\* bound included; a hold idea is never accepted.
C7_HeldAcceptedIff ==
    [][ pc = "accept" =>
          \A k \in 1 .. Len(ai_result) :
              ai_result[k].betrifft_portfolio =>
                  ( ai_result[k] \in Range(relevant_items')
                    <=> /\ IsBuyLike(ai_result[k]) \/ IsSellLike(ai_result[k])
                        /\ ai_result[k].vertrauen >= Hundredths(MIN_CONF_PORTFOLIO) ) ]_vars

C7_Witness ==
    /\ pc = "done"
    /\ \E k \in 1 .. Len(relevant_items) :
          /\ relevant_items[k].betrifft_portfolio
          /\ relevant_items[k].vertrauen = Hundredths(MIN_CONF_PORTFOLIO)

\* C8: the confidence of every accepted idea, as compared with the thresholds
\* and as shown by the dashboard, lies in [0,100].
C8_ConfidenceInRange ==
    /\ \A k \in 1 .. Len(relevant_items) :
          relevant_items[k].vertrauen \in 0 .. Hundredths(100)
    /\ \A k \in 1 .. Len(dashboard) : dashboard[k] \in 0 .. Hundredths(100)

\* C9: the acceptance loop accepts an idea with a confidence r in (0,1]
\* exactly when it would accept the same idea with confidence 100*r.
C9_ScaleIndependent ==
    [][ pc = "accept" =>
          \A k \in 1 .. Len(ai_result) :
              ai_result[k].vertrauen \in 1 .. Hundredths(1) =>
                  ( ai_result[k] \in Range(relevant_items')
                    <=> Accepts([ ai_result[k] EXCEPT !.vertrauen = @ * 100 ]) ) ]_vars

\* C10: when every model fails, analyze_with_gemini returns no ideas and does
\* not raise; the run never aborts, accepts nothing, writes no state, and
\* its next steps lead through the acceptance loop to generate_dashboard.
C10_ExhaustionCompletes ==
    /\ [] ( /\ (analyzed /\ ~model_ok) =>
                (pc # "crashed" /\ relevant_items = << >> /\ ~committed)
            /\ exhausted =>
                /\ ai_result = << >>
                /\ pc \in { "accept", "deliver", "done" }
                /\ pc = "done" => (delivery_attempted /\ dashboard = << >>) )
    /\ [][ /\ (exhausted /\ pc = "accept") =>
                (pc' = "deliver" /\ relevant_items' = << >>)
           /\ (exhausted /\ pc = "deliver") =>
                (pc' = "done" /\ delivery_attempted' /\ dashboard' = << >>) ]_vars

C10_Witness ==
    /\ exhausted
    /\ pc = "done"
    /\ delivery_attempted
    /\ relevant_items = << >>

\* C11: a failing state-file write does not abort the run: every step taken
\* at the commit, whether the write succeeds or raises, leads on to
\* generate_dashboard, and no run ends with an unhandled error.
C11_WriteFailureTolerated ==
    /\ [] (pc # "crashed")
    /\ [][ pc = "save" => pc' = "deliver" ]_vars

\* C12: within one call of analyze_with_gemini the models are invoked in the
\* order of the list, each at most once, and never more than there are
\* models; a response that validates ends the call at once; after another
\* error the next model is asked without a wait; after a rate-limit error the
\* call sleeps, invoking nothing, and then goes on or returns.
C12_FallbackOrder ==
    /\ [] ( /\ Len(calls) <= Len(models)
            /\ \A i \in 1 .. Len(calls) : calls[i] = models[i]
            /\ pc = "analyze" => Len(calls) < Len(models)
            /\ pc = "sleep" => last_error = "rate_limit" )
    /\ [][ /\ pc = "analyze" =>
                \/ calls' = Append(calls, models[Len(calls) + 1])
                \/ pc' = "accept" /\ calls' = << >>
           /\ (model_ok' /\ ~model_ok) => (pc' = "accept" /\ calls' = << >>)
           /\ (pc = "analyze" /\ last_error' = "error") =>
                (pc' = "analyze" /\ calls' = Append(calls, models[Len(calls) + 1]))
           /\ (pc = "analyze" /\ last_error' = "rate_limit") => pc' = "sleep"
           /\ pc = "sleep" =>
                \/ pc' = "analyze" /\ calls' = calls
                \/ pc' = "accept" /\ calls' = << >> /\ Len(calls) = Len(models)
           /\ pc \notin { "analyze", "sleep" } => (calls' = calls \/ calls' = << >>) ]_vars

C12_Witness ==
    /\ pc = "sleep"
    /\ last_error = "rate_limit"
    /\ calls = SubSeq(models, 1, 2)

\* C13: every id a run adds to the persisted seen set was among the items
\* passed to analyze_with_gemini in that run, however many new items there are.
C13_PersistedWereSubmitted ==
    committed => (state_file \ persisted_at_start) \subseteq UrlsOf(news_items)
====
